---- MODULE Spec2Model ----
(***************************************************************************)
(* Model of the system monitor (src/system_monitor.py) and its AI helper   *)
(* (src/aimon.py): the background loop, the process queries, the inference *)
(* client, the prompt builder and the command-line dispatch.               *)
(*                                                                         *)
(* Conventions.  A Python str is a sequence of one-character strings.  A   *)
(* value that may be None is a record [isNone, v].  A decoded JSON value   *)
(* is a record whose field t is its type, with a field for its content.    *)
(* A call that may raise returns a record [ok, value, err].                *)
(***************************************************************************)
EXTENDS Integers, Sequences, FiniteSets, TLC

VARIABLES
    pc,                  \* run_background_monitor: "start", "loop" or "stopped"
    api_key,             \* os.environ.get("GROQ_API_KEY")
    ai_client,           \* the loop's ai_client (None or a Groq object)
    interval,            \* --interval
    ai_check_interval,   \* --ai-interval
    now,                 \* time.time()
    last_ai_check_time,  \* the loop's timer
    system_info,         \* the snapshot of the last sampling
    processes,           \* the process list of the last sampling
    tick,                \* what the last loop iteration did
    stats,               \* counts over the iterations so far
    table,               \* the OS process table seen by a query
    query,               \* the last Process Query Engine call and its result
    call,                \* the last inference call and its result
    prompt,              \* the last prompt built by analyze_system_data
    args,                \* argparse's parsed arguments
    performed            \* what main() did, in order

vars == <<pc, api_key, ai_client, interval, ai_check_interval, now,
          last_ai_check_time, system_info, processes, tick, stats,
          table, query, call, prompt, args, performed>>

loopVars == <<pc, api_key, ai_client, interval, ai_check_interval, now,
              last_ai_check_time, tick, stats>>
sampleVars == <<system_info, processes>>
queryVars == <<table, query>>
cliVars == <<args, performed>>

(***************************************************************************)
(* Bounds of the model.                                                    *)
(***************************************************************************)
MaxTicks == 3        \* loop iterations explored
MaxTable == 3        \* processes in the OS table of a query
MaxProcs == 22       \* processes in a list handed to the prompt builder
MaxCmdLen == 102     \* length of a command line

(***************************************************************************)
(* Python values.                                                          *)
(***************************************************************************)
None == [isNone |-> TRUE, v |-> 0]            \* of an int
NoneStr == [isNone |-> TRUE, v |-> <<>>]       \* of a str
NoneList == [isNone |-> TRUE, v |-> <<0, 0>>]  \* of a pair of numbers
Some(x) == [isNone |-> FALSE, v |-> x]

Min(a, b) == IF a <= b THEN a ELSE b
Max(a, b) == IF a >= b THEN a ELSE b

\* str.isspace() on one character
IsSpace(c) == c \in {" ", "\t", "\n", "\r"}

RECURSIVE LStrip(_)
LStrip(s) == IF s # <<>> /\ IsSpace(Head(s)) THEN LStrip(Tail(s)) ELSE s

RECURSIVE RStrip(_)
RStrip(s) ==
    IF s # <<>> /\ IsSpace(s[Len(s)]) THEN RStrip(SubSeq(s, 1, Len(s) - 1)) ELSE s

\* str.strip()
Strip(s) == RStrip(LStrip(s))

\* s[:n] for n >= 0
Prefix(s, n) == SubSeq(s, 1, Min(n, Len(s)))

\* s[:n] for any integer n: a negative n counts from the end
SliceTo(s, n) ==
    IF n >= 0 THEN Prefix(s, n) ELSE SubSeq(s, 1, Max(0, Len(s) + n))

\* Position of index i in the order sorted(..., key, reverse=True) gives to
\* the keys: larger keys first, equal keys in their original order.
RankDesc(keys, i) ==
    1 + Cardinality({j \in 1..Len(keys) :
                        keys[j] > keys[i] \/ (keys[j] = keys[i] /\ j < i)})

\* The permutation sorted(..., reverse=True) applies: element k of the result
\* is the index of the element placed k-th.
SortedIndexDesc(keys) ==
    LET rank == [i \in 1..Len(keys) |-> RankDesc(keys, i)]
    IN  [k \in 1..Len(keys) |-> CHOOSE i \in 1..Len(keys) : rank[i] = k]

\* sorted(seq, key=..., reverse=True), the keys given alongside
SortedDesc(seq, keys) ==
    LET perm == SortedIndexDesc(keys) IN [k \in 1..Len(seq) |-> seq[perm[k]]]

(***************************************************************************)
(* Results of calls that may raise.                                        *)
(***************************************************************************)
NoError == [kind |-> "none", msg |-> <<>>]
Error(kind, msg) == [kind |-> kind, msg |-> msg]
JNull == [t |-> "null"]
Return(x) == [ok |-> TRUE, value |-> x, err |-> NoError]
Raise(kind, msg) == [ok |-> FALSE, value |-> JNull, err |-> Error(kind, msg)]

(***************************************************************************)
(* Inference Client: aimon.py, class Groq.                                 *)
(***************************************************************************)
\* Python truthiness of a str-or-None: "not api_key" is its negation
StrTruthy(k) == ~k.isNone /\ Len(k.v) > 0

\* A Groq object
Client(key) == [isNone |-> FALSE, api_key |-> key]
NoClient == [isNone |-> TRUE, api_key |-> <<>>]

\* Groq.__init__: raises ValueError when "not api_key", else keeps the
\* stripped key
GroqInit(key) ==
    IF ~StrTruthy(key)
    THEN [ok |-> FALSE, client |-> NoClient, err |-> Error("ValueError", <<>>)]
    ELSE [ok |-> TRUE, client |-> Client(Strip(key.v)), err |-> NoError]

initialize_client(key) == GroqInit(key)

\* JSON values
JStr(s) == [t |-> "str", s |-> s]
JList(xs) == [t |-> "list", items |-> xs]
JObj(ps) == [t |-> "obj", pairs |-> ps]     \* pairs <<key, value>>, keys unique

HasKey(o, k) == \E i \in 1..Len(o.pairs) : o.pairs[i][1] = k
ValueOf(o, k) == o.pairs[CHOOSE i \in 1..Len(o.pairs) : o.pairs[i][1] = k][2]

\* Python's v[k] for a str key k
PyGetKey(x, k) ==
    IF x.t = "obj"
    THEN IF HasKey(x, k) THEN Return(ValueOf(x, k)) ELSE Raise("KeyError", <<>>)
    ELSE Raise("TypeError", <<>>)

\* Python's v[0]
PyGetFirst(x) ==
    CASE x.t = "list" ->
            IF Len(x.items) > 0 THEN Return(x.items[1]) ELSE Raise("IndexError", <<>>)
      [] x.t = "str" ->
            IF Len(x.s) > 0 THEN Return(JStr(<<x.s[1]>>)) ELSE Raise("IndexError", <<>>)
      [] x.t = "obj" -> Raise("KeyError", <<>>)
      [] OTHER -> Raise("TypeError", <<>>)

\* dict.get(k, default) on x; AttributeError when x is no dict
PyDictGet(x, k, default) ==
    IF x.t = "obj"
    THEN Return(IF HasKey(x, k) THEN ValueOf(x, k) ELSE default)
    ELSE Raise("AttributeError", <<>>)

\* Texts
ErrorPrefix == <<"G", "r", "o", "q", " ", "A", "P", "I", " ", "E", "r", "r", "o", "r", ":", " ">>
MalformedText == <<"M", "a", "l", "f", "o", "r", "m", "e", "d">>
DigitChar == <<"0", "1", "2", "3", "4", "5", "6", "7", "8", "9">>
StatusDigits(n) ==
    <<DigitChar[((n \div 100) % 10) + 1], DigitChar[((n \div 10) % 10) + 1],
      DigitChar[(n % 10) + 1]>>

\* str(e) of the transport library's error: for an HTTP status error a text
\* that starts with the status code, for a failed connection or an undecodable
\* body a text of the library's own
RawText(out) ==
    IF ~out.connected THEN <<"c", "o", "n", "n">>
    ELSE IF out.status >= 400 THEN StatusDigits(out.status) \o <<" ", "E", "r", "r", "o", "r">>
    ELSE <<"j", "s", "o", "n">>

\* response.raise_for_status() raises
RaisesForStatus(status) == 400 <= status /\ status < 600

\* bool(response): the transport library's Response is truthy when its status
\* is below 400
ResponseTruthy(status) == status < 400

\* response.json(): the decoded body, or JSONDecodeError
ResponseJson(out) ==
    IF out.body.kind = "json" THEN Return(out.body.json) ELSE Raise("JSONDecodeError", RawText(out))

\* "e.response and e.response.text" of line 58, for the error e raised on out:
\* e.response is None unless raise_for_status raised
ResponseAndText(out) ==
    /\ out.connected /\ RaisesForStatus(out.status)
    /\ ResponseTruthy(out.status)
    /\ out.body.kind # "absent"

\* Lines 56-61: the message taken from the error's response, str(e) when any
\* step fails
ErrorMessage(out) ==
    LET raw == JStr(RawText(out))
        details == IF ResponseAndText(out) THEN ResponseJson(out) ELSE Return(JObj(<<>>))
        err == IF details.ok THEN PyDictGet(details.value, "error", JObj(<<>>)) ELSE details
        msg == IF err.ok THEN PyDictGet(err.value, "message", raw) ELSE err
    IN  IF msg.ok THEN msg.value ELSE raw

\* f"{x}" of a JSON value placed in a message
Format(x) ==
    CASE x.t = "str" -> x.s
      [] x.t = "null" -> <<"N", "o", "n", "e">>
      [] OTHER -> <<"?">>

\* Groq.chat_completions with stream=False, the HTTP exchange ending as out
\* (a decode error of the body is a RequestException of the transport library)
chat_completions(client, out) ==
    IF out.connected /\ ~RaisesForStatus(out.status) /\ out.body.kind = "json"
    THEN Return(out.body.json)
    ELSE Raise("Exception", ErrorPrefix \o Format(ErrorMessage(out)))

\* Lines 87-94: response_json["choices"][0]["message"]["content"], KeyError and
\* IndexError turned into the malformed-response error
Extract(response_json) ==
    LET a == PyGetKey(response_json, "choices")
        b == IF a.ok THEN PyGetFirst(a.value) ELSE a
        c == IF b.ok THEN PyGetKey(b.value, "message") ELSE b
        d == IF c.ok THEN PyGetKey(c.value, "content") ELSE c
    IN  IF d.ok THEN d
        ELSE IF d.err.kind \in {"KeyError", "IndexError"}
             THEN Raise("Exception", MalformedText)
             ELSE d

\* get_ai_response_content(client, user_input), the HTTP exchange ending as out
get_ai_response_content(client, user_input, out) ==
    IF Strip(user_input) = <<>> THEN Raise("ValueError", <<>>)
    ELSE IF client.isNone THEN Raise("AttributeError", <<>>)
    ELSE LET r == chat_completions(client, out)
         IN  IF r.ok THEN Extract(r.value) ELSE r

(***************************************************************************)
(* Analysis Orchestrator: aimon.py, analyze_system_data.                   *)
(***************************************************************************)
PromptLimit == 20      \* processes in the prompt
CmdlineLimit == 100    \* longest command line left as it is
CmdlineKeep == 97      \* characters kept of a longer one

Ellipsis == <<".", ".", ".">>

\* str.replace('\n', ' ').replace('\r', '')
ReplaceNewlines(s) ==
    SelectSeq([i \in 1..Len(s) |-> IF s[i] = "\n" THEN " " ELSE s[i]],
              LAMBDA c : c # "\r")

\* Lines 120-123: the command line as the prompt shows it
CmdlineDisplay(cmdline) ==
    ReplaceNewlines(IF Len(cmdline) > CmdlineLimit
                    THEN SubSeq(cmdline, 1, CmdlineKeep) \o Ellipsis
                    ELSE cmdline)

\* Line 126: memory_percent is shown only when it is a float
MemDisplay(p) == IF p.memory_percent.isNone THEN "N/A" ELSE "percent"

\* p.get('cpu_percent', 0) of every record: the key is always present
CpuKeys(procs) == [i \in 1..Len(procs) |-> procs[i].cpu_percent]

\* sorted() compares every key with another one once there are two, and
\* None compares with nothing
SortRaises(keys) == Len(keys) >= 2 /\ \E i \in 1..Len(keys) : keys[i].isNone

\* Line 116 without the [:20]
ProcessesForPrompt_NoLimit(procs) ==
    SortedDesc(procs, [i \in 1..Len(procs) |-> procs[i].cpu_percent.v])

\* Line 116: sorted(processes, key=cpu_percent, reverse=True)[:20]
ProcessesForPrompt(procs) ==
    SliceTo(SortedDesc(procs, [i \in 1..Len(procs) |-> procs[i].cpu_percent.v]),
            PromptLimit)

\* Line 128: one process line; f"{None:.2f}" raises TypeError
ProcessLine(p) ==
    [pid |-> p.pid, cpu |-> p.cpu_percent.v, mem |-> MemDisplay(p),
     cmdline |-> CmdlineDisplay(p.cmdline)]

\* The text of a prompt whose process lines are given: never blank
PromptText(lines) == <<"A", "n", "a", "l", "y", "z", "e">>

\* Lines 100-132: the process lines of the prompt, or the TypeError raised
\* while building it
BuildPrompt(info, procs) ==
    IF procs = <<>> THEN Return(<<>>)
    ELSE IF SortRaises(CpuKeys(procs)) THEN Raise("TypeError", <<>>)
    ELSE LET top == ProcessesForPrompt(procs)
         IN  IF \E i \in 1..Len(top) : top[i].cpu_percent.isNone
             THEN Raise("TypeError", <<>>)
             ELSE Return([i \in 1..Len(top) |-> ProcessLine(top[i])])

\* analyze_system_data(client, system_info, processes), the HTTP exchange (if
\* one is made) ending as out.  raised: an error left the function;
\* calls: HTTP requests made; printed: what the try block printed
analyze_system_data(client, info, procs, out) ==
    LET b == BuildPrompt(info, procs)
        r == get_ai_response_content(client, PromptText(b.value), out)
    IN  IF ~b.ok
        THEN [raised |-> TRUE, built |-> FALSE, lines |-> <<>>, calls |-> 0,
              printed |-> "nothing"]
        ELSE [raised |-> FALSE, built |-> TRUE, lines |-> b.value,
              calls |-> IF client.isNone THEN 0 ELSE 1,
              printed |-> IF r.ok THEN "advice" ELSE "error"]

(***************************************************************************)
(* Metrics Collector: system_monitor.py, get_system_info, list_processes.  *)
(***************************************************************************)
\* A process of the OS table as process_iter shows it: an attribute that
\* could not be read is None
OsProcess(pid, cmdline, cpu_percent, cpu_times, rss) ==
    [pid |-> pid, cmdline |-> cmdline, cpu_percent |-> cpu_percent,
     cpu_times |-> cpu_times, rss |-> rss]

\* get_system_info(): the five gauges, or {} after a failed read
EmptyInfo == [empty |-> TRUE, cpu_percent |-> 0]
SystemInfos == {EmptyInfo, [empty |-> FALSE, cpu_percent |-> 50]}

\* Lines 59-67: the record list_processes makes of one process; the memory
\* tuple has no percent attribute, so memory_percent is None
ProcessRecord(p) ==
    [pid |-> p.pid, cmdline |-> p.cmdline, cpu_percent |-> p.cpu_percent,
     memory_percent |-> None, rss |-> IF p.rss.isNone THEN 0 ELSE p.rss.v]

\* list_processes() without filters
list_processes(tbl) == [i \in 1..Len(tbl) |-> ProcessRecord(tbl[i])]

(***************************************************************************)
(* Background Loop: system_monitor.py, run_background_monitor.             *)
(***************************************************************************)
\* Values of GROQ_API_KEY: unset, empty, blank, a key, a key with blanks around
Keys == {NoneStr, Some(<<>>), Some(<<" ">>), Some(<<"\t", " ">>), Some(<<"k">>),
         Some(<<" ", "k", " ">>)}
\* Seconds an iteration may take beyond its sleep
Lags == {0, 1}
Intervals == {-1, 0, 2}
AiIntervals == {0, 1, 3}

\* OS tables of the loop specification: pids in scan order
LoopProcess(i, c) == OsProcess(i, <<"a">>, c, Some(<<0, 0>>), Some(0))
LoopTables ==
    UNION {{[i \in 1..n |-> LoopProcess(i, f[i])] : f \in [1..n -> {None, Some(1)}]} :
           n \in {0, 1, 2}}

\* HTTP exchanges
Exchange(connected, status, body) ==
    [connected |-> connected, status |-> status, body |-> body]
NoBody == [kind |-> "absent", json |-> JNull]
Garbage == [kind |-> "garbage", json |-> JNull]
Body(j) == [kind |-> "json", json |-> j]
Ok == <<"o", "k">>
Completion(text) ==
    JObj(<< <<"choices", JList(<< JObj(<< <<"message", JObj(<< <<"content", JStr(text)>> >>)>> >>) >>)>> >>)
ErrorBody(m) == JObj(<< <<"error", JObj(<< <<"message", m>> >>)>> >>)
RateLimited == <<"r", "a", "t", "e", " ", "l", "i", "m", "i", "t", "e", "d">>
LoopExchanges ==
    {Exchange(FALSE, 0, NoBody),
     Exchange(TRUE, 200, Body(Completion(Ok))),
     Exchange(TRUE, 200, Body(JObj(<< <<"choices", JList(<<>>)>> >>)))}

NoTick ==
    [n |-> 0, time |-> 0, prev_last |-> 0, sampled |-> FALSE, status_printed |-> FALSE,
     invoked |-> FALSE, raised |-> FALSE, calls |-> 0, printed |-> "nothing"]
\* invocations: the calls of analyze_system_data made so far, oldest first
NoStats ==
    [ticks |-> 0, sampled |-> 0, status_printed |-> 0, invoked |-> 0,
     invocations |-> <<>>]

NoQuery == [kind |-> "none", limit |-> 0, min_mb |-> 0, max_mb |-> 0, result |-> <<>>]
NoCall == [made |-> FALSE, out |-> Exchange(FALSE, 0, NoBody), result |-> Return(JNull)]
NoPrompt == [built |-> FALSE, raised |-> FALSE, lines |-> <<>>, printed |-> "nothing"]
NoArgs == [system |-> FALSE, processes |-> FALSE, run_in_background |-> FALSE,
           top_cpu |-> None, mem_range |-> NoneList]

InitQueryIdle == table = <<>> /\ query = NoQuery
InitCallIdle == call = NoCall
InitPromptIdle == prompt = NoPrompt
InitCliIdle == args = NoArgs /\ performed = <<>>
InitSampleIdle == system_info = EmptyInfo /\ processes = <<>>

InitIdle == InitQueryIdle /\ InitCallIdle /\ InitPromptIdle /\ InitCliIdle

InitLoopIdle ==
    /\ pc = "idle"
    /\ api_key = NoneStr
    /\ ai_client = NoClient
    /\ interval = 0
    /\ ai_check_interval = 0
    /\ now = 0
    /\ last_ai_check_time = 0
    /\ tick = NoTick
    /\ stats = NoStats

InitLoop ==
    /\ pc = "start"
    /\ api_key \in Keys
    /\ ai_client = NoClient
    /\ interval \in Intervals
    /\ ai_check_interval \in AiIntervals
    /\ now = 0
    /\ last_ai_check_time = 0
    /\ system_info = EmptyInfo
    /\ processes = <<>>
    /\ tick = NoTick
    /\ stats = NoStats
    /\ InitIdle

\* Lines 152-164: the client of the run; None when the key is not set or the
\* constructor raises
LoopClient(key) ==
    IF ~StrTruthy(key) THEN NoClient
    ELSE IF initialize_client(key).ok THEN initialize_client(key).client
    ELSE NoClient

\* Lines 148-164: entry of run_background_monitor
Start ==
    /\ pc = "start"
    /\ last_ai_check_time' = now
    /\ ai_client' = LoopClient(api_key)
    /\ pc' = "loop"
    /\ \E d \in Lags : now' = now + d
    /\ UNCHANGED <<api_key, interval, ai_check_interval, tick, stats>>
    /\ UNCHANGED <<sampleVars, queryVars, call, prompt, cliVars>>

\* Line 178 without the test of the client
ShouldInvoke_AnyClient(client, current_time, last, ai_interval) ==
    (current_time - last) >= ai_interval

\* Line 178: a Groq object is truthy, None is not
ShouldInvoke(client, current_time, last, ai_interval) ==
    ~client.isNone /\ (current_time - last) >= ai_interval

\* Line 182 with the assignment made only after printed advice
CheckTimeAfter_AdviceOnly(a, current_time, last) ==
    IF a.raised \/ a.printed # "advice" THEN last ELSE current_time

\* Lines 181-182: the assignment follows the call of analyze_system_data and
\* runs whenever that call returns, whatever its try block printed
CheckTimeAfter(a, current_time, last) ==
    IF a.raised THEN last ELSE current_time

\* Lines 167-185: one iteration of the loop, its sleep included.  An error
\* raised by analyze_system_data or by time.sleep (a negative interval)
\* reaches the handler of line 189 and ends the loop.
Tick ==
    /\ pc = "loop"
    /\ stats.ticks < MaxTicks
    /\ \E info \in SystemInfos, tbl \in LoopTables, d \in Lags :
        LET current_time == now
            procs == list_processes(tbl)
            invoke == ShouldInvoke(ai_client, current_time, last_ai_check_time,
                                   ai_check_interval)
        IN  \E out \in IF invoke THEN LoopExchanges ELSE {Exchange(FALSE, 0, NoBody)} :
            \E a \in {analyze_system_data(ai_client, info, procs, out)} :
            LET raised == invoke /\ a.raised
            IN  /\ system_info' = info
                /\ processes' = procs
                /\ last_ai_check_time' =
                       IF invoke
                       THEN CheckTimeAfter(a, current_time, last_ai_check_time)
                       ELSE last_ai_check_time
                /\ tick' = [n |-> stats.ticks + 1, time |-> current_time,
                            prev_last |-> last_ai_check_time,
                            sampled |-> TRUE, status_printed |-> TRUE,
                            invoked |-> invoke, raised |-> raised,
                            calls |-> IF invoke THEN a.calls ELSE 0,
                            printed |-> IF invoke THEN a.printed ELSE "nothing"]
                /\ stats' = [ticks |-> stats.ticks + 1, sampled |-> stats.sampled + 1,
                             status_printed |-> stats.status_printed + 1,
                             invoked |-> stats.invoked + (IF invoke THEN 1 ELSE 0),
                             invocations |->
                                 IF invoke
                                 THEN Append(stats.invocations,
                                             [n |-> stats.ticks + 1,
                                              time |-> current_time,
                                              calls |-> a.calls,
                                              printed |-> a.printed])
                                 ELSE stats.invocations]
                /\ pc' = IF raised \/ interval < 0 THEN "stopped" ELSE "loop"
                /\ now' = IF raised \/ interval < 0 THEN now + d ELSE now + interval + d
    /\ UNCHANGED <<api_key, ai_client, interval, ai_check_interval>>
    /\ UNCHANGED <<queryVars, call, prompt, cliVars>>

\* Line 187: KeyboardInterrupt ends the loop
Interrupt ==
    /\ pc = "loop"
    /\ pc' = "stopped"
    /\ UNCHANGED <<api_key, ai_client, interval, ai_check_interval, now,
                   last_ai_check_time, tick, stats>>
    /\ UNCHANGED <<sampleVars, queryVars, call, prompt, cliVars>>

NextLoop == Start \/ Tick \/ Interrupt

SpecLoop == InitLoop /\ [][NextLoop]_vars

(***************************************************************************)
(* Process Query Engine: system_monitor.py, get_top_cpu_processes and      *)
(* get_memory_range_processes.                                             *)
(***************************************************************************)
BytesPerMb == 1048576     \* 1024 * 1024

CpuTimesValues == {NoneList, Some(<<0, 1>>), Some(<<1, 1>>)}
RssValues == {None, Some(0), Some(BytesPerMb), Some(BytesPerMb + 1)}
Limits == -2..(MaxTable + 1)
MbValues == {0, 1, 2}

QueryProcess(i, t, r) == OsProcess(i, <<"a">>, Some(0), t, r)
\* Each query reads one of the two fields, so a process varies in one field
\* at a time
QueryProfiles ==
    {<<t, Some(BytesPerMb)>> : t \in CpuTimesValues}
        \cup {<<Some(<<0, 1>>), r>> : r \in RssValues}
QueryTables ==
    UNION {{[i \in 1..n |-> QueryProcess(i, f[i][1], f[i][2])] :
                f \in [1..n -> QueryProfiles]} : n \in 0..MaxTable}

\* Lines 85-101: the records of the processes whose cpu_times could be read
CpuTimeRecords(tbl) ==
    LET readable == SelectSeq(tbl, LAMBDA p : ~p.cpu_times.isNone)
    IN  [i \in 1..Len(readable) |->
            [pid |-> readable[i].pid,
             total_cpu_time |-> readable[i].cpu_times.v[1] + readable[i].cpu_times.v[2]]]

\* get_top_cpu_processes(limit): sorted by total_cpu_time, descending, then
\* sorted_processes[:limit]
get_top_cpu_processes(tbl, limit) ==
    LET recs == CpuTimeRecords(tbl)
    IN  SliceTo(SortedDesc(recs, [i \in 1..Len(recs) |-> recs[i].total_cpu_time]),
                limit)

\* Line 123: "mem_info and mem_info.rss"; an rss of 0 is falsy
MemoryReadable(p) == ~p.rss.isNone /\ p.rss.v # 0

\* get_memory_range_processes(min_mb, max_mb); rss_mb is rss_bytes / 2^20, so
\* the order by rss_mb is the order by rss_bytes
get_memory_range_processes(tbl, min_mb, max_mb) ==
    LET min_bytes == min_mb * BytesPerMb
        max_bytes == max_mb * BytesPerMb
        matching == SelectSeq(tbl, LAMBDA p :
                        /\ MemoryReadable(p)
                        /\ min_bytes <= p.rss.v /\ p.rss.v <= max_bytes)
        recs == [i \in 1..Len(matching) |->
                    [pid |-> matching[i].pid, rss_bytes |-> matching[i].rss.v]]
    IN  SortedDesc(recs, [i \in 1..Len(recs) |-> recs[i].rss_bytes])

InitQuery ==
    /\ table \in QueryTables
    /\ query = NoQuery
    /\ InitLoopIdle /\ InitSampleIdle /\ InitCallIdle /\ InitPromptIdle /\ InitCliIdle

\* A call of get_top_cpu_processes
TopCpu ==
    /\ \E limit \in Limits :
        query' = [kind |-> "top_cpu", limit |-> limit, min_mb |-> 0, max_mb |-> 0,
                  result |-> get_top_cpu_processes(table, limit)]
    /\ UNCHANGED <<table, loopVars, sampleVars, call, prompt, cliVars>>

\* A call of get_memory_range_processes
MemRange ==
    /\ \E min_mb \in MbValues, max_mb \in MbValues :
        query' = [kind |-> "mem_range", limit |-> 0, min_mb |-> min_mb, max_mb |-> max_mb,
                  result |-> get_memory_range_processes(table, min_mb, max_mb)]
    /\ UNCHANGED <<table, loopVars, sampleVars, call, prompt, cliVars>>

NextQuery == TopCpu \/ MemRange

SpecQuery == InitQuery /\ [][NextQuery]_vars

(***************************************************************************)
(* The inference call on its own: every way an HTTP exchange can end.      *)
(***************************************************************************)
Statuses == {200, 201, 400, 429, 500, 503}

Contents == {JNull, JStr(Ok), JStr(<<>>)}
Messages ==
    {JNull, JStr(Ok), JObj(<<>>), JList(<<>>)}
        \cup {JObj(<< <<"content", c>> >>) : c \in Contents}
Choices ==
    {JNull, JStr(Ok), JObj(<<>>)} \cup {JObj(<< <<"message", m>> >>) : m \in Messages}
ChoicesValues ==
    {JNull, JStr(<<>>), JStr(Ok), JObj(<<>>), JList(<<>>)}
        \cup {JList(<<c>>) : c \in Choices}
        \cup {JList(<<c, JNull>>) : c \in Choices}
Responses ==
    {JNull, JStr(Ok), JList(<<>>), JObj(<<>>)}
        \cup {JObj(<< <<"choices", v>> >>) : v \in ChoicesValues}
ErrorBodies ==
    {ErrorBody(JStr(RateLimited)), ErrorBody(JStr(Ok)), ErrorBody(JNull),
     JObj(<< <<"error", JStr(RateLimited)>> >>), JObj(<< <<"error", JObj(<<>>)>> >>)}
Bodies == {NoBody, Garbage} \cup {Body(j) : j \in Responses \cup ErrorBodies}
Exchanges ==
    {Exchange(FALSE, 0, NoBody)} \cup {Exchange(TRUE, st, b) : st \in Statuses, b \in Bodies}

InitCall ==
    /\ call = NoCall
    /\ pc = "idle"
    /\ api_key \in {Some(<<"k">>), Some(<<" ", "k", " ">>)}
    /\ ai_client = initialize_client(api_key).client
    /\ interval = 0
    /\ ai_check_interval = 0
    /\ now = 0
    /\ last_ai_check_time = 0
    /\ tick = NoTick
    /\ stats = NoStats
    /\ InitSampleIdle /\ InitQueryIdle /\ InitPromptIdle /\ InitCliIdle

\* A call of get_ai_response_content with a prompt
Call ==
    /\ \E out \in Exchanges :
        call' = [made |-> TRUE, out |-> out,
                 result |-> get_ai_response_content(ai_client, PromptText(<<>>), out)]
    /\ UNCHANGED <<loopVars, sampleVars, queryVars, prompt, cliVars>>

NextCall == Call

SpecCall == InitCall /\ [][NextCall]_vars

(***************************************************************************)
(* The prompt on its own: analyze_system_data on process lists longer than *)
(* the prompt's limit and command lines longer than the display limit.     *)
(***************************************************************************)
\* A command line of the given length with a newline and a carriage return at
\* the given positions (0: none)
Cmdline(len, nl, cr) ==
    [i \in 1..len |-> IF i = nl THEN "\n" ELSE IF i = cr THEN "\r" ELSE "a"]
CmdLens == {0, 1} \cup ((CmdlineKeep - 1)..MaxCmdLen)
Cmdlines ==
    {Cmdline(len, nl, cr) : len \in CmdLens, nl \in {0, 1, 97, 98, 100}, cr \in {0, 2, 96, 101}}

\* A table of n processes: cpu_percent follows the pattern (i * m) % 3, but
\* process j has cpu_percent c and command line cmd
PromptTable(n, m, j, c, cmd) ==
    [i \in 1..n |->
        OsProcess(i, IF i = j THEN cmd ELSE <<"a">>,
                  IF i = j THEN c ELSE Some((i * m) % 3), Some(<<0, 0>>), Some(0))]
PromptTables ==
    {PromptTable(n, m, j, c, <<"a", "\n">>) :
        n \in 0..MaxProcs, m \in {0, 1, 2}, j \in {1, 2, MaxProcs}, c \in {None, Some(0), Some(5)}}
    \cup
    {PromptTable(n, 1, j, Some(5), cmd) :
        n \in {1, MaxProcs}, j \in {1, MaxProcs}, cmd \in Cmdlines}

InitPrompt ==
    /\ processes \in {list_processes(tbl) : tbl \in PromptTables}
    /\ system_info \in SystemInfos
    /\ prompt = NoPrompt
    /\ pc = "idle"
    /\ api_key = Some(<<"k">>)
    /\ ai_client = initialize_client(api_key).client
    /\ interval = 0
    /\ ai_check_interval = 0
    /\ now = 0
    /\ last_ai_check_time = 0
    /\ tick = NoTick
    /\ stats = NoStats
    /\ InitQueryIdle /\ InitCallIdle /\ InitCliIdle

\* A call of analyze_system_data on the sampled data
Analyze ==
    /\ \E out \in LoopExchanges :
        \E a \in {analyze_system_data(ai_client, system_info, processes, out)} :
            prompt' = [built |-> a.built, raised |-> a.raised, lines |-> a.lines,
                       printed |-> a.printed]
    /\ UNCHANGED <<loopVars, sampleVars, queryVars, call, cliVars>>

NextPrompt == Analyze

SpecPrompt == InitPrompt /\ [][NextPrompt]_vars

(***************************************************************************)
(* Command line: system_monitor.py, main.                                  *)
(***************************************************************************)
ArgValues ==
    [system : BOOLEAN, processes : BOOLEAN, run_in_background : BOOLEAN,
     top_cpu : {None, Some(-1), Some(0), Some(1), Some(3)},
     mem_range : {NoneList, Some(<<0, 0>>), Some(<<0, 1>>), Some(<<2, 1>>)}]

\* Python truthiness of args.top_cpu (None or an int) and of args.mem_range
\* (None or a list of two floats)
IntTruthy(x) == ~x.isNone /\ x.v # 0
ListTruthy(x) == ~x.isNone /\ Len(x.v) > 0

\* Line 263: any([system, processes, run_in_background, top_cpu, mem_range])
AnyAction(a) ==
    a.system \/ a.processes \/ a.run_in_background \/ IntTruthy(a.top_cpu)
        \/ ListTruthy(a.mem_range)

\* Lines 218-261: the if/elif chain
PrimaryAction(a) ==
    IF a.system THEN <<"system">>
    ELSE IF a.processes THEN <<"processes">>
    ELSE IF ~a.top_cpu.isNone THEN <<"top_cpu">>
    ELSE IF ~a.mem_range.isNone THEN <<"mem_range">>
    ELSE <<>>

\* Lines 211-264: what main() performs, in order
Main(a) ==
    IF a.run_in_background THEN <<"background">>
    ELSE PrimaryAction(a) \o (IF ~AnyAction(a) THEN <<"help">> ELSE <<>>)

InitCli ==
    /\ args \in ArgValues
    /\ performed = <<>>
    /\ InitLoopIdle /\ InitSampleIdle /\ InitQueryIdle /\ InitCallIdle /\ InitPromptIdle

\* One run of main()
RunMain ==
    /\ performed = <<>>
    /\ performed' = Main(args)
    /\ UNCHANGED <<args, loopVars, sampleVars, queryVars, call, prompt>>

NextCli == RunMain

SpecCli == InitCli /\ [][NextCli]_vars

(***************************************************************************)
(* Properties.                                                             *)
(***************************************************************************)

\* C1: on every tick of the Background Loop the Analysis Orchestrator is
\* invoked if and only if a client is configured and (tick time -
\* last_ai_check_time) >= ai_interval; after each invocation
\* last_ai_check_time equals that tick's time; with ai_interval = 0 it is
\* invoked on every tick.
C1_InvokedIffDueThenTimerReset ==
    tick.n > 0 =>
        /\ tick.invoked <=>
               (~ai_client.isNone /\ tick.time - tick.prev_last >= ai_check_interval)
        /\ tick.invoked => last_ai_check_time = tick.time
        /\ (~ai_client.isNone /\ ai_check_interval = 0) => tick.invoked

\* C2: with no API key at the start of the Background Loop the client is
\* None for the whole run (it is set at loop entry and stays None in every
\* later state): no tick invokes the Analysis Orchestrator, and every tick
\* still samples and prints its status line.
C2_NoKeyNoAnalysis ==
    (pc \in {"loop", "stopped"} /\ ~StrTruthy(api_key)) =>
        /\ ai_client.isNone
        /\ stats.invoked = 0 /\ ~tick.invoked /\ tick.calls = 0
        /\ stats.sampled = stats.ticks /\ stats.status_printed = stats.ticks
        /\ tick.n > 0 => (tick.sampled /\ tick.status_printed)

\* C2 witness: a run without a key whose second tick is due for an analysis
C2_Witness ==
    /\ ~StrTruthy(api_key) /\ pc = "loop"
    /\ stats.ticks >= 2 /\ stats.sampled >= 2
    /\ tick.time - tick.prev_last >= ai_check_interval

\* A key that is empty or only whitespace
IsBlankKey(k) == ~k.isNone /\ Strip(k.v) = <<>>

\* C3: constructing the client fails for every key that is empty or only
\* whitespace, so no client holds a blank key and the Background Loop never
\* has a client for a whitespace-only key.
C3_BlankKeyNoClient ==
    pc \in {"loop", "stopped"} =>
        /\ IsBlankKey(api_key) => ai_client.isNone
        /\ ~ai_client.isNone => Len(ai_client.api_key) > 0

\* The body is JSON of the form {error: {message: M}} with M a string
HasErrorMessage(b) ==
    /\ b.kind = "json" /\ b.json.t = "obj" /\ HasKey(b.json, "error")
    /\ ValueOf(b.json, "error").t = "obj"
    /\ HasKey(ValueOf(b.json, "error"), "message")
    /\ ValueOf(ValueOf(b.json, "error"), "message").t = "str"
EmbeddedMessage(b) == ValueOf(ValueOf(b.json, "error"), "message").s

\* C4: on a non-2xx status whose body is {error: {message: M}} the error
\* raised by chat_completion carries M, not the raw transport text.
C4_EmbeddedMessageSurfaced ==
    (call.made /\ call.out.connected /\ call.out.status \notin 200..299
        /\ HasErrorMessage(call.out.body)) =>
        /\ ~call.result.ok
        /\ call.result.err.msg \in {EmbeddedMessage(call.out.body),
                                    ErrorPrefix \o EmbeddedMessage(call.out.body)}

\* The processes of the table whose CPU times can be read, by pid (the pid
\* of a table's process is its place in the enumeration)
CpuPopulation == {i \in 1..Len(table) : ~table[i].cpu_times.isNone}
TotalCpu(i) == table[i].cpu_times.v[1] + table[i].cpu_times.v[2]

\* C5: top_cpu_processes(limit) is sorted by total CPU seconds descending
\* with ties in enumeration order, no omitted process has more CPU time
\* than a returned one, and its length is min(limit, population) when
\* limit > 0 and zero when limit <= 0.
C5_TopCpuSortedAndSized ==
    query.kind = "top_cpu" =>
        LET r == query.result
            pids == {r[i].pid : i \in 1..Len(r)}
        IN  /\ pids \subseteq CpuPopulation /\ Cardinality(pids) = Len(r)
            /\ \A i \in 1..Len(r) : r[i].total_cpu_time = TotalCpu(r[i].pid)
            /\ \A i, j \in 1..Len(r) : i < j =>
                   \/ r[i].total_cpu_time > r[j].total_cpu_time
                   \/ r[i].total_cpu_time = r[j].total_cpu_time /\ r[i].pid < r[j].pid
            /\ \A q \in CpuPopulation \ pids : \A i \in 1..Len(r) :
                   TotalCpu(q) <= r[i].total_cpu_time
            /\ Len(r) = IF query.limit > 0
                        THEN Min(query.limit, Cardinality(CpuPopulation))
                        ELSE 0

\* C6: processes_in_memory_range(min_mb, max_mb) returns exactly the scanned
\* processes with min_mb*2^20 <= rss <= max_mb*2^20, both ends included (an
\* rss of 0 with min_mb = 0 too), ordered by resident bytes descending, and
\* nothing when min_mb > max_mb.
C6_MemRangeExact ==
    query.kind = "mem_range" =>
        LET r == query.result
            pids == {r[i].pid : i \in 1..Len(r)}
            wanted == {i \in 1..Len(table) :
                          /\ ~table[i].rss.isNone
                          /\ query.min_mb * 1048576 <= table[i].rss.v
                          /\ table[i].rss.v <= query.max_mb * 1048576}
        IN  /\ pids = wanted /\ Cardinality(pids) = Len(r)
            /\ \A i, j \in 1..Len(r) : i < j => r[i].rss_bytes >= r[j].rss_bytes
            /\ query.min_mb > query.max_mb => Len(r) = 0

\* The response has the shape choices[0].message.content
HasShape(j) ==
    /\ j.t = "obj" /\ HasKey(j, "choices")
    /\ ValueOf(j, "choices").t = "list" /\ Len(ValueOf(j, "choices").items) > 0
    /\ ValueOf(j, "choices").items[1].t = "obj"
    /\ HasKey(ValueOf(j, "choices").items[1], "message")
    /\ ValueOf(ValueOf(j, "choices").items[1], "message").t = "obj"
    /\ HasKey(ValueOf(ValueOf(j, "choices").items[1], "message"), "content")
ShapeContent(j) ==
    ValueOf(ValueOf(ValueOf(j, "choices").items[1], "message"), "content")

\* C7: the extraction returns choices[0].message.content when the response
\* has that shape, and fails with the malformed-response error, and no other
\* kind of error, for every successful response without it.
C7_ExtractOrMalformed ==
    (call.made /\ call.out.connected /\ call.out.status \in 200..299
        /\ call.out.body.kind = "json") =>
        IF HasShape(call.out.body.json)
        THEN call.result = Return(ShapeContent(call.out.body.json))
        ELSE /\ ~call.result.ok
             /\ call.result.err = Error("Exception", MalformedText)

\* C8: analyze_system_data never lets an error reach its caller: whatever
\* the snapshot, the process list (records with a null cpu_percent included)
\* and the outcome of the inference call, it prints the advice or an error
\* and returns, so no tick of the Background Loop is ended by it.
C8_AnalyzeNeverRaises ==
    tick.invoked => (~tick.raised /\ tick.printed \in {"advice", "error"})

\* Scan order: the pid of a sampled process is its place in the list
CpuOf(pid) == processes[pid].cpu_percent.v
RanksBefore(p, q) == CpuOf(p) > CpuOf(q) \/ (CpuOf(p) = CpuOf(q) /\ p < q)

C10_ExactlyOneOutcome ==
    performed # <<>> =>
        LET none_given == /\ ~args.run_in_background /\ ~args.system /\ ~args.processes
                          /\ args.top_cpu.isNone /\ args.mem_range.isNone
            helped == \E i \in 1..Len(performed) : performed[i] = "help"
        IN  /\ Len(performed) = 1
            /\ helped <=> none_given
            /\ args.run_in_background => performed[1] = "background"
            /\ (~args.run_in_background /\ args.system) => performed[1] = "system"
            /\ (~args.run_in_background /\ ~args.system /\ args.processes) =>
                   performed[1] = "processes"
            /\ (~args.run_in_background /\ ~args.system /\ ~args.processes
                    /\ ~args.top_cpu.isNone) => performed[1] = "top_cpu"
            /\ (~args.run_in_background /\ ~args.system /\ ~args.processes
                    /\ args.top_cpu.isNone /\ ~args.mem_range.isNone) =>
                   performed[1] = "mem_range"

\* C11: in the Background Loop a failed analysis is never retried early.
\* After a tick whose inference call was made, failed or not,
\* last_ai_check_time is the time of that tick; a tick makes at most one
\* inference call; and two consecutive invocations of analyze_system_data
\* are at least ai_check_interval apart in tick time.
C11_FailedAnalysisNotRetriedEarly ==
    LET inv == stats.invocations
    IN  /\ (tick.n > 0 /\ tick.calls > 0) => last_ai_check_time = tick.time
        /\ tick.calls <= 1
        /\ \A i \in 1..Len(inv) : inv[i].calls <= 1
        /\ \A i \in 2..Len(inv) :
               inv[i].time - inv[i - 1].time >= ai_check_interval

\* A failed inference call, a tick that came too early and was skipped, and
\* the next invocation once the interval had passed
C11_Witness ==
    LET inv == stats.invocations
    IN  /\ ai_check_interval > 0
        /\ Len(inv) = 2
        /\ inv[1].calls = 1 /\ inv[1].printed = "error"
        /\ inv[2].n > inv[1].n + 1
        /\ inv[2].time - inv[1].time >= ai_check_interval
        /\ tick.n = inv[2].n /\ last_ai_check_time = tick.time

====
